---------------------------- MODULE Spec2Model ----------------------------
(***************************************************************************)
(* Manga Panel Viewer: the client-side Gallery fetch cycle (retry, backoff *)
(* and cancellation) and the server-side upload pipeline (bytes in storage *)
(* plus metadata record), modelled from the TypeScript sources.            *)
(***************************************************************************)
EXTENDS Integers, Sequences, FiniteSets, TLC

(***************************************************************************)
(* Bounds of the model.                                                    *)
(***************************************************************************)
\* how many times the refresh key may be incremented (cycles = MaxRefresh + 1)
MaxRefresh == 2
\* how many upload requests the server receives
MaxUploads == 2

(***************************************************************************)
(* Program constants.                                                      *)
(***************************************************************************)
\* Gallery: `attempt < 5`
MaxRetries == 5
\* Gallery: `1000 * 2 ** attempt`
BaseDelay == 1000
\* Gallery: `Math.min(..., 8000)`
MaxDelay == 8000
\* UploadArea: `MAX_FILE_SIZE = 10 * 1024 * 1024`
ClientMaxFileSize == 10485760
\* server: `MAX_FILE_SIZE`, default `10 * 1024 * 1024`
MaxFileSize == 10485760

Null == "null"
DefaultMsg == "Failed to load images"
AbortName == "AbortError"

Cycles == 1..(MaxRefresh + 1)

\* the item lists a listing response may carry (image ids, newest first)
ItemLists == {<< >>, <<1>>, <<2, 1>>}

\* the bodies of ok responses: `items` is an array, or it is not one
Responses ==
    {[isArray |-> TRUE, items |-> l] : l \in ItemLists}
        \cup {[isArray |-> FALSE, items |-> << >>]}

\* the ways one listing request fails without being aborted: fetch rejects
\* (network failure), or the response is not ok, with or without an error text
Failures ==
    { [kind |-> "network", text |-> "Failed to fetch"],
      [kind |-> "status", text |-> "Something went wrong!"],
      [kind |-> "status", text |-> ""] }

VARIABLES
    \* ---- client: App and Gallery ----
    refreshKey,   \* App: useState(0)
    mounted,      \* the Gallery component is mounted
    depKey,       \* the refreshKey the latest effect run saw
    cur,          \* number of effect runs so far = id of the latest fetch cycle
    cancelled,    \* per cycle: the closure's `cancelled` flag
    aborted,      \* per cycle: controller.signal.aborted
    req,          \* per cycle: "none" | "inflight" (a fetch awaiting settlement)
    timer,        \* per cycle: "none" | "pending" (a setTimeout not yet fired)
    attempt,      \* per cycle: `attempt` of the live load() invocation or timer
                  \* closure (0 once neither is left)
    items,        \* Gallery state: items
    error,        \* Gallery state: error (Null or a message)
    loading,      \* Gallery state: loading
    \* ---- client: what was observed since the latest effect run ----
    nreq,         \* listing requests issued
    nfail,        \* failures that reached the retry-or-error decision
    delays,       \* the delays passed to setTimeout, in order
    lastMsg,      \* message of the last failure that reached the decision
    okItems,      \* the items of the response that was rendered: << >> or <<its>>
    errSeen,      \* the `error` state has been visible
    \* ---- client: what was observed of each cycle ----
    dropped,      \* per cycle: the last event it handled after its cancellation
    \* ---- server: storage directory and Metadata Store ----
    storage,      \* the storage names under which a byte stream exists
    records,      \* the image records, in creation order
    \* ---- server: the upload requests ----
    upc,          \* per request: "new" | "stored" | "upsert" | "create" | "done"
    ufile,        \* per request: req.file while the handler runs
    uname,        \* per request: req.file.filename (0: none allocated)
    ustatus,      \* per request: the status of the response (0: none yet)
    upath,        \* per request: the exit path the request took
    unlinking,    \* per request: an fs.unlink was started and has not run yet
    content,      \* per storage name: what the bytes stored there decode to
    \* ---- server: what was observed of each request ----
    usent,        \* per request: field, declared mime type and size as sent
    \* ---- server: one GET /api/v1/images request ----
    lpc,          \* "idle", "reading" (inside Promise.all), "done" (answered)
    lq,           \* req.query: the raw limit and offset parameters
    llimit,       \* `limit`
    loffset,      \* `offset`
    litems,       \* `items`: << >> until findMany resolved, then <<page>>
    ltotal,       \* `total`: -1 until count resolved
    lseen,        \* the number of records when the request arrived
    \* ---- client: UploadArea ----
    uaError,      \* useState: error (Null or a message)
    uaLoading,    \* useState: loading
    uaResult,     \* useState: result (NoResult, or the id in a 201 response)
    sel           \* per handleFiles call: "new", "empty", "rejected",
                  \* "inflight" (awaiting the fetch), "ok", "failed"

gvars == <<refreshKey, mounted, depKey, cur, cancelled, aborted, req, timer,
           attempt, items, error, loading, nreq, nfail, delays, lastMsg,
           okItems, errSeen, dropped>>

upvars == <<storage, records, upc, ufile, uname, ustatus, upath, unlinking,
            content, usent>>

lvars == <<lpc, lq, llimit, loffset, litems, ltotal, lseen>>

avars == <<uaError, uaLoading, uaResult, sel>>

\* everything outside the Gallery
uvars == <<upvars, lvars, avars>>

vars == <<gvars, uvars>>

rendered == <<items, error, loading>>

Min(a, b) == IF a < b THEN a ELSE b

(***************************************************************************)
(* Gallery: pure helpers.                                                  *)
(***************************************************************************)
\* mutant of Delay: the cap is forgotten
DelayUncapped(a) == BaseDelay * 2 ^ a

\* `Math.min(1000 * 2 ** attempt, 8000)`
Delay(a) == Min(BaseDelay * 2 ^ a, MaxDelay)

\* the Error a failed request throws into the catch block:
\* fetch's own rejection, or `new Error(data?.error || 'Failed to load images')`
Thrown(f) ==
    IF f.kind = "network"
    THEN [name |-> "TypeError", message |-> f.text]
    ELSE [name |-> "Error",
          message |-> IF f.text = "" THEN DefaultMsg ELSE f.text]

\* the rejection of a fetch whose signal was aborted
AbortError == [name |-> AbortName, message |-> "The operation was aborted."]

\* `e?.message || 'Failed to load images'`
ErrText(e) == IF e.message = "" THEN DefaultMsg ELSE e.message

\* mutant of ItemsOf: the page is appended to the rendered items
ItemsAppended(data) == items \o (IF data.isArray THEN data.items ELSE << >>)

\* mutant of ItemsOf: items already rendered are kept in front of the page
ItemsMerged(data) ==
    IF items = << >> THEN (IF data.isArray THEN data.items ELSE << >>)
    ELSE <<items[1]>> \o (IF data.isArray THEN data.items ELSE << >>)

\* `Array.isArray(data.items) ? data.items : []`
ItemsOf(data) == IF data.isArray THEN data.items ELSE << >>

\* mutant of ShouldRetry: one retry too many
ShouldRetryOffByOne(e, a) == e.name # AbortName /\ a <= MaxRetries

\* mutant of ShouldRetry: a failure is never retried
ShouldRetryNever(e, a) == FALSE

\* `!isAbort && attempt < 5`
ShouldRetry(e, a) == e.name # AbortName /\ a < MaxRetries

\* mutant of LoadCancelled: load returns at once, whatever the flag
LoadAlwaysReturns(c) == TRUE

\* mutant of LoadCancelled: load does not look at the flag
LoadNotGuarded(c) == FALSE

\* the guard `if (cancelled) return;` at the head of load
LoadCancelled(c) == cancelled[c]

\* mutant of ResolvedCancelled: the success path does not look at the flag
ResolvedNotGuarded(c) == FALSE

\* the guard `if (cancelled) return;` of the success path
ResolvedCancelled(c) == cancelled[c]

\* the guard `if (cancelled) return;` of the catch block
RejectedCancelled(c) == cancelled[c]

\* mutant of CleanupCancelled: the cleanup only aborts the controller
CleanupKeepsFlag(c) == cancelled

\* effect cleanup: `cancelled = true`
CleanupCancelled(c) ==
    IF c = 0 THEN cancelled ELSE [cancelled EXCEPT ![c] = TRUE]

\* effect cleanup: `controller.abort()`
CleanupAborted(c) ==
    IF c = 0 THEN aborted ELSE [aborted EXCEPT ![c] = TRUE]

\* the state is `error`: not loading and an error to show
IsError == ~loading /\ error # Null

\* the state is `success`: not loading and no error
IsSuccess == ~loading /\ error = Null

TrackErr == errSeen' = (errSeen \/ (~loading' /\ error' # Null))

Observe(c, kind) ==
    dropped' = IF cancelled[c] THEN [dropped EXCEPT ![c] = kind] ELSE dropped

\* mutant of Load: `if (attempt === 0) setLoading(true)` is missing
LoadKeepsLoading(c, a, isCancelled) ==
    IF isCancelled
    THEN /\ attempt' = [attempt EXCEPT ![c] = 0]
         /\ UNCHANGED <<loading, error, req, nreq>>
    ELSE /\ UNCHANGED loading
         /\ error' = Null
         /\ req' = [req EXCEPT ![c] = "inflight"]
         /\ attempt' = [attempt EXCEPT ![c] = a]
         /\ nreq' = IF a = 0 THEN 1 ELSE nreq + 1

(***************************************************************************)
(* Gallery: load(attempt) up to its `await fetch(...)`.                    *)
(***************************************************************************)
Load(c, a, isCancelled) ==
    IF isCancelled
    THEN /\ attempt' = [attempt EXCEPT ![c] = 0]
         /\ UNCHANGED <<loading, error, req, nreq>>
    ELSE /\ loading' = IF a = 0 THEN TRUE ELSE loading
         /\ error' = Null
         /\ req' = [req EXCEPT ![c] = "inflight"]
         /\ attempt' = [attempt EXCEPT ![c] = a]
         /\ nreq' = IF a = 0 THEN 1 ELSE nreq + 1

(***************************************************************************)
(* App: handleUploadSuccess increments the refresh key.                    *)
(***************************************************************************)
HandleUploadSuccess ==
    /\ mounted
    /\ UNCHANGED uvars
    /\ refreshKey < MaxRefresh
    /\ refreshKey' = refreshKey + 1
    /\ UNCHANGED <<mounted, depKey, cur, cancelled, aborted, req, timer,
                   attempt, items, error, loading, nreq, nfail, delays,
                   lastMsg, okItems, errSeen, dropped>>

(***************************************************************************)
(* Gallery: the effect runs (first mount, or refreshKey changed): the      *)
(* cleanup of the previous run, then a new closure and load().             *)
(***************************************************************************)
RunEffect ==
    /\ mounted
    /\ UNCHANGED uvars
    /\ cur = 0 \/ depKey # refreshKey
    /\ cur + 1 \in Cycles
    /\ cur' = cur + 1
    /\ depKey' = refreshKey
    /\ cancelled' = [CleanupCancelled(cur) EXCEPT ![cur + 1] = FALSE]
    /\ aborted' = [CleanupAborted(cur) EXCEPT ![cur + 1] = FALSE]
    /\ Load(cur + 1, 0, FALSE)
    /\ nfail' = 0
    /\ delays' = << >>
    /\ lastMsg' = Null
    /\ okItems' = << >>
    /\ errSeen' = (~loading' /\ error' # Null)
    /\ UNCHANGED <<refreshKey, mounted, timer, items, dropped>>

(***************************************************************************)
(* Gallery: the component is torn down: only the cleanup runs.             *)
(***************************************************************************)
Unmount ==
    /\ mounted
    /\ UNCHANGED uvars
    /\ cur > 0
    /\ mounted' = FALSE
    /\ cancelled' = CleanupCancelled(cur)
    /\ aborted' = CleanupAborted(cur)
    /\ UNCHANGED <<refreshKey, depKey, cur, req, timer, attempt, items, error,
                   loading, nreq, nfail, delays, lastMsg, okItems, errSeen,
                   dropped>>

(***************************************************************************)
(* Gallery: the request of cycle c resolves with an ok response whose body *)
(* is `data`: the rest of the try block.                                   *)
(***************************************************************************)
LoadResolved(c, data) ==
    /\ req[c] = "inflight"
    /\ UNCHANGED uvars
    /\ req' = [req EXCEPT ![c] = "none"]
    /\ IF ResolvedCancelled(c)
       THEN UNCHANGED <<items, loading, okItems>>
       ELSE /\ items' = ItemsOf(data)
            /\ loading' = FALSE
            /\ okItems' = <<data.items>>
    /\ attempt' = [attempt EXCEPT ![c] = 0]
    /\ Observe(c, "ok")
    /\ UNCHANGED <<refreshKey, mounted, depKey, cur, cancelled, aborted, timer,
                   error, nreq, nfail, delays, lastMsg>>
    /\ TrackErr

(***************************************************************************)
(* Gallery: the request of cycle c throws e into the catch block.          *)
(***************************************************************************)
LoadRejected(c, e) ==
    /\ req[c] = "inflight"
    /\ UNCHANGED uvars
    /\ req' = [req EXCEPT ![c] = "none"]
    /\ IF RejectedCancelled(c)
       THEN UNCHANGED <<timer, delays, error, loading, nfail, lastMsg>>
       ELSE /\ nfail' = nfail + 1
            /\ lastMsg' = e.message
            /\ IF ShouldRetry(e, attempt[c])
               THEN /\ timer' = [timer EXCEPT ![c] = "pending"]
                    /\ delays' = Append(delays, Delay(attempt[c]))
                    /\ UNCHANGED <<error, loading>>
               ELSE /\ error' = ErrText(e)
                    /\ loading' = FALSE
                    /\ UNCHANGED <<timer, delays>>
    /\ attempt' = [attempt EXCEPT ![c] = IF timer'[c] = "pending" THEN @ ELSE 0]
    /\ Observe(c, IF e.name = AbortName THEN "abort" ELSE "fail")
    /\ UNCHANGED <<refreshKey, mounted, depKey, cur, cancelled, aborted,
                   items, nreq, okItems>>
    /\ TrackErr

\* a request fails on its own (network failure or non-ok status)
RequestFails(c, f) == LoadRejected(c, Thrown(f))

\* a request whose signal was aborted rejects with an AbortError
RequestAborted(c) ==
    /\ aborted[c]
    /\ LoadRejected(c, AbortError)

(***************************************************************************)
(* Gallery: the retry timer of cycle c fires: load(attempt + 1).           *)
(***************************************************************************)
TimerFires(c) ==
    /\ timer[c] = "pending"
    /\ UNCHANGED uvars
    /\ timer' = [timer EXCEPT ![c] = "none"]
    /\ Load(c, attempt[c] + 1, LoadCancelled(c))
    /\ Observe(c, "timer")
    /\ UNCHANGED <<refreshKey, mounted, depKey, cur, cancelled, aborted, items,
                   nfail, delays, lastMsg, okItems>>
    /\ TrackErr

(***************************************************************************)
(* Initial state: the components are constructed, no effect has run yet.   *)
(***************************************************************************)
GInit ==
    /\ refreshKey = 0
    /\ mounted = TRUE
    /\ depKey = 0
    /\ cur = 0
    /\ cancelled = [c \in Cycles |-> FALSE]
    /\ aborted = [c \in Cycles |-> FALSE]
    /\ req = [c \in Cycles |-> "none"]
    /\ timer = [c \in Cycles |-> "none"]
    /\ attempt = [c \in Cycles |-> 0]
    /\ items = << >>
    /\ error = Null
    /\ loading = TRUE
    /\ nreq = 0
    /\ nfail = 0
    /\ delays = << >>
    /\ lastMsg = Null
    /\ okItems = << >>
    /\ errSeen = FALSE
    /\ dropped = [c \in Cycles |-> "none"]


GNext ==
    \/ HandleUploadSuccess
    \/ RunEffect
    \/ Unmount
    \/ \E c \in Cycles, data \in Responses : LoadResolved(c, data)
    \/ \E c \in Cycles, f \in Failures : RequestFails(c, f)
    \/ \E c \in Cycles : RequestAborted(c)
    \/ \E c \in Cycles : TimerFires(c)

(***************************************************************************)
(* Server: the upload pipeline (multer + POST /api/v1/uploads).            *)
(***************************************************************************)
Uploads == 1..MaxUploads

\* the storage names the filename allocator may produce
Names == 1..MaxUploads

\* fileFilter: `const allowed = ['image/jpeg', 'image/png']`
AllowedMimes == {"image/jpeg", "image/png"}

Mimes == AllowedMimes \cup {"application/pdf"}

\* widths and heights image-size may report (0 stands for any falsy value)
DimValues == {-1, 0, 600, 800}

\* what sizeOf(filePath) does: it throws, or it returns dimensions
Undecodable == [ok |-> FALSE, width |-> 0, height |-> 0]

\* the decodable files vary one dimension at a time
Probes ==
    {Undecodable}
        \cup {p \in [ok : {TRUE}, width : DimValues, height : DimValues] :
                 \/ p.width # 600 /\ p.height = 600
                 \/ p.width = 800 /\ p.height = 0}

\* file sizes in bytes: under the ceiling, and one byte over it
Sizes == {2097152, MaxFileSize + 1}

\* an uploaded file: its declared mime type, its size and what its bytes
\* decode to; a PNG is sent in one shape only, a well-formed file under the
\* ceiling, every other combination is sent as a JPEG or a PDF
Files ==
    {f \in [mime : Mimes, size : Sizes, probe : Probes] :
        f.mime = "image/png" =>
            /\ ~(f.size > MaxFileSize)
            /\ f.probe = [ok |-> TRUE, width |-> 800, height |-> 600]}

NoFile == [mime |-> "", size |-> 0, probe |-> Undecodable]

\* what a request carried: the form field, the declared mime type, the size
Sent(field, f) == [field |-> field, mime |-> f.mime, size |-> f.size]

NoSent == Sent("none", NoFile)

\* the errors passed to next(err)
FilterError == [multer |-> FALSE, code |-> "Only JPEG and PNG files are allowed"]
SizeError == [multer |-> TRUE, code |-> "LIMIT_FILE_SIZE"]
FieldError == [multer |-> TRUE, code |-> "LIMIT_UNEXPECTED_FILE"]
DbError == [multer |-> FALSE, code |-> "PrismaClientError"]

\* the Multer error handler followed by the error handling middleware
ErrorStatus(err) ==
    IF err.multer
    THEN IF err.code = "LIMIT_FILE_SIZE" THEN 413 ELSE 400
    ELSE 500

\* mutant of TypeRejected: the filter lets every type through
TypeRejectedNever(f) == FALSE

\* fileFilter: `!allowed.includes(file.mimetype)`
TypeRejected(f) == f.mime \notin AllowedMimes

\* mutant of TooLarge: no size limit is enforced
TooLargeNever(f) == FALSE

\* multer `limits: { fileSize: MAX_FILE_SIZE }`
TooLarge(f) == f.size > MaxFileSize

\* `sizeOf(filePath)`: decodes the bytes now stored under the name n
SizeOf(n) == IF n \in storage THEN content[n] ELSE Undecodable

\* `!dimensions.width || !dimensions.height`
InvalidDims(p) == p.width = 0 \/ p.height = 0

\* the handler calls fs.unlink on the invalid-image paths
InvalidImageCleanup == TRUE

\* the handler calls no fs.unlink when prisma.user.upsert rejects
IdentityFailureCleanup == FALSE

\* mutant of PersistFailureCleanup: the catch of image.create only rethrows
PersistFailureKeepsBytes == FALSE

\* the handler calls fs.unlink when prisma.image.create rejects
PersistFailureCleanup == TRUE

\* the storage names no request holds: the allocator's names do not collide
FreshNames == Names \ {uname[q] : q \in Uploads}

\* mutant of NewRecord: width and height are swapped
NewRecordSwapsDims(r, at) ==
    [filename |-> uname[r],
     mimeType |-> ufile[r].mime,
     size |-> ufile[r].size,
     width |-> ufile[r].probe.height,
     height |-> ufile[r].probe.width,
     uploadedAt |-> at,
     by |-> r]

\* the `data` of prisma.image.create and the column default of uploadedAt
\* (`by`: the request that created it)
NewRecord(r, at) ==
    [filename |-> uname[r],
     mimeType |-> ufile[r].mime,
     size |-> ufile[r].size,
     width |-> ufile[r].probe.width,
     height |-> ufile[r].probe.height,
     uploadedAt |-> at,
     by |-> r]

\* `uploadedAt TIMESTAMP(3) DEFAULT CURRENT_TIMESTAMP`: the clock reading of
\* a new record, in milliseconds counted from the first record: the reading
\* of the latest record again, or a later one
Now ==
    IF records = << >>
    THEN {1}
    ELSE {records[Len(records)].uploadedAt,
          records[Len(records)].uploadedAt + 1}

\* the request ends with a response
Respond(r, status, path, cleanup) ==
    /\ upc' = [upc EXCEPT ![r] = "done"]
    /\ ufile' = [ufile EXCEPT ![r] = NoFile]
    /\ ustatus' = [ustatus EXCEPT ![r] = status]
    /\ upath' = [upath EXCEPT ![r] = path]
    /\ unlinking' = [unlinking EXCEPT ![r] = cleanup]

\* mutant of UploadNoFile: the `!req.file` check is missing, reading
\* `req.file.filename` throws and the outer catch hands it to the 500 handler
UploadNoFileUnchecked(r) ==
    /\ upc[r] = "new"
    /\ UNCHANGED <<gvars, lvars, avars>>
    /\ Respond(r, ErrorStatus(DbError), "nofile", FALSE)
    /\ usent' = [usent EXCEPT ![r] = NoSent]
    /\ UNCHANGED <<storage, records, uname, content>>

\* a request without a file: `if (!req.file)`
UploadNoFile(r) ==
    /\ upc[r] = "new"
    /\ UNCHANGED <<gvars, lvars, avars>>
    /\ Respond(r, 400, "nofile", FALSE)
    /\ usent' = [usent EXCEPT ![r] = NoSent]
    /\ UNCHANGED <<storage, records, uname, content>>

\* a file under another field name: multer raises LIMIT_UNEXPECTED_FILE
UploadUnexpectedField(r) ==
    /\ upc[r] = "new"
    /\ UNCHANGED <<gvars, lvars, avars>>
    /\ Respond(r, ErrorStatus(FieldError), "field", FALSE)
    /\ usent' = [usent EXCEPT ![r] = Sent("other", NoFile)]
    /\ UNCHANGED <<storage, records, uname, content>>

\* fileFilter rejects the declared mime type: nothing is written
UploadRejectedType(r, f) ==
    /\ upc[r] = "new"
    /\ UNCHANGED <<gvars, lvars, avars>>
    /\ TypeRejected(f)
    /\ Respond(r, ErrorStatus(FilterError), "type", FALSE)
    /\ usent' = [usent EXCEPT ![r] = Sent("image", f)]
    /\ UNCHANGED <<storage, records, uname, content>>

\* the file exceeds limits.fileSize: multer raises LIMIT_FILE_SIZE and
\* removes what it wrote
UploadTooLarge(r, f) ==
    /\ upc[r] = "new"
    /\ UNCHANGED <<gvars, lvars, avars>>
    /\ ~TypeRejected(f)
    /\ TooLarge(f)
    /\ Respond(r, ErrorStatus(SizeError), "large", FALSE)
    /\ usent' = [usent EXCEPT ![r] = Sent("image", f)]
    /\ UNCHANGED <<storage, records, uname, content>>

\* multer.diskStorage writes the bytes of f under the name n
StoreFile(r, f, n) ==
    /\ upc[r] = "new"
    /\ UNCHANGED <<gvars, lvars, avars>>
    /\ ~TypeRejected(f)
    /\ ~TooLarge(f)
    /\ storage' = storage \cup {n}
    /\ content' = [content EXCEPT ![n] = f.probe]
    /\ upc' = [upc EXCEPT ![r] = "stored"]
    /\ ufile' = [ufile EXCEPT ![r] = f]
    /\ uname' = [uname EXCEPT ![r] = n]
    /\ usent' = [usent EXCEPT ![r] = Sent("image", f)]
    /\ UNCHANGED <<records, ustatus, upath, unlinking>>

\* the allocated name is one no other request holds
UploadStored(r, f, n) ==
    /\ n \in FreshNames
    /\ StoreFile(r, f, n)

\* the allocator hands out a name another request holds: the bytes stored
\* under it are overwritten
UploadCollides(r, f, n) ==
    /\ n \notin FreshNames
    /\ StoreFile(r, f, n)

\* the route handler up to `await prisma.user.upsert(...)`
HandlerValidate(r) ==
    /\ upc[r] = "stored"
    /\ UNCHANGED <<gvars, lvars, avars>>
    /\ LET dimensions == SizeOf(uname[r]) IN
       IF ~dimensions.ok
       THEN Respond(r, 400, "undecodable", InvalidImageCleanup)
       ELSE IF InvalidDims(dimensions)
       THEN Respond(r, 400, "nodims", InvalidImageCleanup)
       ELSE /\ upc' = [upc EXCEPT ![r] = "upsert"]
            /\ ufile' = [ufile EXCEPT ![r].probe = dimensions]
            /\ UNCHANGED <<ustatus, upath, unlinking>>
    /\ UNCHANGED <<storage, records, uname, content, usent>>

\* prisma.user.upsert settles; on success prisma.image.create is called
UpsertSettles(r, ok) ==
    /\ upc[r] = "upsert"
    /\ UNCHANGED <<gvars, lvars, avars>>
    /\ IF ok
       THEN /\ upc' = [upc EXCEPT ![r] = "create"]
            /\ UNCHANGED <<ufile, ustatus, upath, unlinking>>
       ELSE Respond(r, ErrorStatus(DbError), "identity", IdentityFailureCleanup)
    /\ UNCHANGED <<storage, records, uname, content, usent>>

\* prisma.image.create settles
CreateSettles(r, ok) ==
    /\ upc[r] = "create"
    /\ UNCHANGED <<gvars, lvars, avars>>
    /\ IF ok
       THEN /\ \E at \in Now : records' = Append(records, NewRecord(r, at))
            /\ Respond(r, 201, "ok", FALSE)
       ELSE /\ UNCHANGED records
            /\ Respond(r, ErrorStatus(DbError), "persist", PersistFailureCleanup)
    /\ UNCHANGED <<storage, uname, content, usent>>

\* ---------------------------------------------------------------------
\* GET /api/v1/images: the pure parts
\* ---------------------------------------------------------------------

\* `|| 20`
DefaultLimit == 20
\* `Math.min(..., 100)`
MaxLimit == 100

Max(a, b) == IF a > b THEN a ELSE b

\* a query parameter: absent, a text parseInt finds no integer in, or the
\* decimal text of an integer
Absent == [kind |-> "absent", val |-> 0]
Text == [kind |-> "text", val |-> 0]
IntText(n) == [kind |-> "int", val |-> n]

\* a JavaScript number: NaN or an integer
NaN == [nan |-> TRUE, val |-> 0]
Num(n) == [nan |-> FALSE, val |-> n]

\* `parseInt(String(q ?? dflt), 10)`
ParseInt(q, dflt) ==
    IF q.kind = "absent" THEN Num(dflt)
    ELSE IF q.kind = "int" THEN Num(q.val)
    ELSE NaN

\* `x || dflt`: NaN and 0 are falsy
OrElse(x, dflt) == IF x.nan \/ x.val = 0 THEN dflt ELSE x.val

\* `Math.min(Math.max(parseInt(String(req.query.limit ?? '20'), 10) || 20, 1), 100)`
EffectiveLimit(q) ==
    Min(Max(OrElse(ParseInt(q, DefaultLimit), DefaultLimit), 1), MaxLimit)

\* `Math.max(parseInt(String(req.query.offset ?? '0'), 10) || 0, 0)`
EffectiveOffset(q) == Max(OrElse(ParseInt(q, 0), 0), 0)

\* the permutations of 1..n
Perms(n) ==
    {p \in [1..n -> 1..n] : \A i, j \in 1..n : i # j => p[i] # p[j]}

\* mutant of Orderings: `orderBy: { uploadedAt: 'asc' }`
OrderingsAscending(recs) ==
    {p \in Perms(Len(recs)) :
        \A i, j \in 1..Len(recs) :
            i < j => recs[p[i]].uploadedAt <= recs[p[j]].uploadedAt}

\* `orderBy: { uploadedAt: 'desc' }`: the orders the store may return the
\* records in; records with equal timestamps come in either order
Orderings(recs) ==
    {p \in Perms(Len(recs)) :
        \A i, j \in 1..Len(recs) :
            i < j => recs[p[i]].uploadedAt >= recs[p[j]].uploadedAt}

Sorted(recs, p) == [i \in 1..Len(recs) |-> recs[p[i]]]

\* mutant of Skip: the offset is ignored
SkipNothing(s, k) == s

\* `skip: offset`
Skip(s, k) == SubSeq(s, k + 1, Len(s))

\* `take: limit`
Take(s, k) == SubSeq(s, 1, Min(k, Len(s)))

\* prisma.image.findMany({ orderBy, take, skip }), the store answering in
\* the order p
FindMany(recs, p, take, skip) == Take(Skip(Sorted(recs, p), skip), take)

\* mutant of Count: the count is one too many
CountOffByOne(recs) == Len(recs) + 1

\* prisma.image.count()
Count(recs) == Len(recs)

\* an fs.unlink started by request r runs
UnlinkCompletes(r) ==
    /\ unlinking[r]
    /\ UNCHANGED <<gvars, lvars, avars>>
    /\ storage' = storage \ {uname[r]}
    /\ content' = [content EXCEPT ![uname[r]] = Undecodable]
    /\ unlinking' = [unlinking EXCEPT ![r] = FALSE]
    /\ UNCHANGED <<records, upc, ufile, uname, ustatus, upath, usent>>

\* ---------------------------------------------------------------------
\* GET /api/v1/images: the request
\* ---------------------------------------------------------------------

\* the limit and offset parameters a client sends
LimitParams ==
    {Absent, Text} \cup {IntText(n) : n \in {-1, 0, 1, 2, 101}}

OffsetParams ==
    {Absent, Text} \cup {IntText(n) : n \in {-1, 0, 1, 4}}

\* the request arrives: limit and offset are computed from the query
ListStart(ql, qo) ==
    /\ lpc = "idle"
    /\ lpc' = "reading"
    /\ lq' = [limit |-> ql, offset |-> qo]
    /\ llimit' = EffectiveLimit(ql)
    /\ loffset' = EffectiveOffset(qo)
    /\ lseen' = Len(records)
    /\ UNCHANGED <<litems, ltotal>>
    /\ UNCHANGED <<gvars, upvars, avars>>

\* prisma.image.findMany resolves, the store answering in the order p
ListFindMany(p) ==
    /\ lpc = "reading"
    /\ litems = << >>
    /\ litems' = <<FindMany(records, p, llimit, loffset)>>
    /\ UNCHANGED <<lpc, lq, llimit, loffset, ltotal, lseen>>
    /\ UNCHANGED <<gvars, upvars, avars>>

\* prisma.image.count resolves
ListCount ==
    /\ lpc = "reading"
    /\ ltotal = -1
    /\ ltotal' = Count(records)
    /\ UNCHANGED <<lpc, lq, llimit, loffset, litems, lseen>>
    /\ UNCHANGED <<gvars, upvars, avars>>

\* Promise.all resolved: `res.json({ total, limit, offset, items })`
ListRespond ==
    /\ lpc = "reading"
    /\ litems # << >>
    /\ ltotal # -1
    /\ lpc' = "done"
    /\ UNCHANGED <<lq, llimit, loffset, litems, ltotal, lseen>>
    /\ UNCHANGED <<gvars, upvars, avars>>

\* ---------------------------------------------------------------------
\* Client: UploadArea and its wiring to the Gallery through App
\* ---------------------------------------------------------------------

\* `useState<UploadResult | null>(null)`: no result
NoResult == 0

\* the calls of handleFiles
Selections == 1..MaxRefresh

\* UploadArea: `ALLOWED_TYPES`
ClientAllowedTypes == {"image/jpeg", "image/png"}

\* the files a user selects: `file.type` and `file.size`
ClientFiles == [type : Mimes, size : Sizes]

\* validateFile: a message, or null
ValidateFile(file) ==
    IF file.type \notin ClientAllowedTypes
    THEN "Only JPEG and PNG files are allowed"
    ELSE IF file.size > ClientMaxFileSize
    THEN "File too large. Max 10MB."
    ELSE Null

\* the ways the upload request fails for the client: the text of
\* `data?.error` of a non-ok response (possibly none), or the message of a
\* rejected fetch
UploadFailures == {"Invalid image file", "", "Failed to fetch"}

\* `data?.error || 'Upload failed'`, `e.message || 'Upload failed'`
UploadErrText(text) == IF text = "" THEN "Upload failed" ELSE text

\* handleFiles(files) with no file: `return`
HandleFilesEmpty(k) ==
    /\ sel[k] = "new"
    /\ sel' = [sel EXCEPT ![k] = "empty"]
    /\ UNCHANGED <<uaError, uaLoading, uaResult>>
    /\ UNCHANGED <<gvars, upvars, lvars>>

\* handleFiles(files) with a file that validateFile refuses
HandleFilesRejected(k, file) ==
    /\ sel[k] = "new"
    /\ ValidateFile(file) # Null
    /\ sel' = [sel EXCEPT ![k] = "rejected"]
    /\ uaError' = ValidateFile(file)
    /\ UNCHANGED <<uaLoading, uaResult>>
    /\ UNCHANGED <<gvars, upvars, lvars>>

\* handleFiles(files) with a valid file, up to `await fetch(...)`
HandleFilesStart(k, file) ==
    /\ sel[k] = "new"
    /\ ValidateFile(file) = Null
    /\ sel' = [sel EXCEPT ![k] = "inflight"]
    /\ uaError' = Null
    /\ uaLoading' = TRUE
    /\ uaResult' = NoResult
    /\ UNCHANGED <<gvars, upvars, lvars>>

\* mutant of UploadFails: the failure path calls onUploadSuccess as well
UploadFailsNotifies(k, text) ==
    /\ sel[k] = "inflight"
    /\ sel' = [sel EXCEPT ![k] = "failed"]
    /\ uaError' = UploadErrText(text)
    /\ uaLoading' = FALSE
    /\ refreshKey' = refreshKey + 1
    /\ UNCHANGED uaResult
    /\ UNCHANGED <<mounted, depKey, cur, cancelled, aborted, req, timer,
                   attempt, items, error, loading, nreq, nfail, delays,
                   lastMsg, okItems, errSeen, dropped>>
    /\ UNCHANGED <<upvars, lvars>>

\* the response is ok: setResult(data), onUploadSuccess (App increments the
\* refresh key), and the finally block
UploadSucceeds(k) ==
    /\ sel[k] = "inflight"
    /\ sel' = [sel EXCEPT ![k] = "ok"]
    /\ uaResult' = k
    /\ uaLoading' = FALSE
    /\ refreshKey' = refreshKey + 1
    /\ UNCHANGED uaError
    /\ UNCHANGED <<mounted, depKey, cur, cancelled, aborted, req, timer,
                   attempt, items, error, loading, nreq, nfail, delays,
                   lastMsg, okItems, errSeen, dropped>>
    /\ UNCHANGED <<upvars, lvars>>

\* the response is not ok or the fetch rejects: the catch block and the
\* finally block
UploadFails(k, text) ==
    /\ sel[k] = "inflight"
    /\ sel' = [sel EXCEPT ![k] = "failed"]
    /\ uaError' = UploadErrText(text)
    /\ uaLoading' = FALSE
    /\ UNCHANGED uaResult
    /\ UNCHANGED <<gvars, upvars, lvars>>

AInit ==
    /\ uaError = Null
    /\ uaLoading = FALSE
    /\ uaResult = NoResult
    /\ sel = [k \in Selections |-> "new"]

LInit ==
    /\ lpc = "idle"
    /\ lq = [limit |-> Absent, offset |-> Absent]
    /\ llimit = 0
    /\ loffset = 0
    /\ litems = << >>
    /\ ltotal = -1
    /\ lseen = 0

UInit ==
    /\ storage = {}
    /\ records = << >>
    /\ upc = [r \in Uploads |-> "new"]
    /\ ufile = [r \in Uploads |-> NoFile]
    /\ uname = [r \in Uploads |-> 0]
    /\ ustatus = [r \in Uploads |-> 0]
    /\ upath = [r \in Uploads |-> "none"]
    /\ unlinking = [r \in Uploads |-> FALSE]
    /\ content = [n \in Names |-> Undecodable]
    /\ usent = [r \in Uploads |-> NoSent]

Init == GInit /\ UInit /\ LInit /\ AInit

UNext ==
    \/ \E r \in Uploads : UploadNoFile(r)
    \/ \E r \in Uploads : UploadUnexpectedField(r)
    \/ \E r \in Uploads, f \in Files : UploadRejectedType(r, f)
    \/ \E r \in Uploads, f \in Files : UploadTooLarge(r, f)
    \/ \E r \in Uploads, f \in Files, n \in Names : UploadStored(r, f, n)
    \/ \E r \in Uploads : HandlerValidate(r)
    \/ \E r \in Uploads, ok \in BOOLEAN : UpsertSettles(r, ok)
    \/ \E r \in Uploads, ok \in BOOLEAN : CreateSettles(r, ok)
    \/ \E r \in Uploads : UnlinkCompletes(r)

\* the Gallery fetcher, driven by refresh-key changes
SpecGallery == Init /\ [][GNext]_vars

\* the request of cycle c settles: an ok response, a failure, or the
\* rejection of an aborted fetch
Settles(c) ==
    \/ \E data \in Responses : LoadResolved(c, data)
    \/ \E f \in Failures : RequestFails(c, f)
    \/ RequestAborted(c)

\* every listing request eventually completes and every scheduled timer
\* eventually fires
GFairness ==
    \A c \in Cycles : WF_vars(Settles(c)) /\ WF_vars(TimerFires(c))

\* the Gallery fetcher under that assumption
SpecGalleryFair == Init /\ [][GNext]_vars /\ GFairness

\* the upload pipeline, with concurrent requests
SpecUpload == Init /\ [][UNext]_vars

CNext ==
    \/ UNext
    \/ \E r \in Uploads, f \in Files, n \in Names : UploadCollides(r, f, n)

\* the upload pipeline when the filename allocator may repeat a name
SpecCollide == Init /\ [][CNext]_vars

\* the file of the uploads that run next to a listing request
Page01 ==
    [mime |-> "image/jpeg",
     size |-> 2097152,
     probe |-> [ok |-> TRUE, width |-> 800, height |-> 600]]

LNext ==
    \/ \E r \in Uploads, n \in Names : UploadStored(r, Page01, n)
    \/ \E r \in Uploads : HandlerValidate(r)
    \/ \E r \in Uploads : UpsertSettles(r, TRUE)
    \/ \E r \in Uploads : CreateSettles(r, TRUE)
    \/ \E ql \in LimitParams, qo \in OffsetParams : ListStart(ql, qo)
    \/ \E p \in Orderings(records) : ListFindMany(p)
    \/ ListCount
    \/ ListRespond

\* one listing request next to successful uploads
SpecListing == Init /\ [][LNext]_vars

ANext ==
    \/ \E k \in Selections : HandleFilesEmpty(k)
    \/ \E k \in Selections, file \in ClientFiles : HandleFilesRejected(k, file)
    \/ \E k \in Selections, file \in ClientFiles : HandleFilesStart(k, file)
    \/ \E k \in Selections : UploadSucceeds(k)
    \/ \E k \in Selections, text \in UploadFailures : UploadFails(k, text)
    \/ RunEffect
    \/ \E c \in Cycles, data \in Responses : LoadResolved(c, data)
    \/ \E c \in Cycles : RequestAborted(c)

\* the upload component, App and the Gallery whose requests succeed
SpecClient == Init /\ [][ANext]_vars


(***************************************************************************)
(* Claims about the Gallery fetcher (checked under SpecGallery).           *)
(***************************************************************************)
\* the latest cycle exists and has not been cancelled
Active == cur > 0 /\ ~cancelled[cur]

\* cycle c has neither a request in flight nor a timer pending
Quiescent(c) == req[c] = "none" /\ timer[c] = "none"

\* a request of cycle c is in flight and its signal has not been aborted
LiveRequest(c) == req[c] = "inflight" /\ ~aborted[c]

\* cycle c handles one of its events in this step (its request settles, or
\* its timer fires)
HandlesEvent(c) ==
    \/ req[c] = "inflight" /\ req'[c] = "none"
    \/ timer[c] = "pending" /\ timer'[c] = "none"

\* C1: once a fetch cycle has been cancelled, no later event of that cycle
\* (request resolving, request failing, retry timer firing) changes the
\* rendered state (items, error, loading), whatever the newer cycle does.
C1_CancelledNeverWrites ==
    [][\A c \in Cycles :
          (cancelled[c] /\ HandlesEvent(c)) => rendered' = rendered]_vars

\* C1 witness: cycles 1 and 2 were superseded and cycle 3 torn down, and each
\* handled a different kind of event after its cancellation.
C1_Witness ==
    /\ dropped[1] = "ok"
    /\ dropped[2] = "fail"
    /\ cur = 3 /\ dropped[3] = "timer"

\* C3 as stated: once a new cycle has started, every previous cycle has no
\* live timer and no live request.
C3_Original ==
    \A c \in Cycles :
        c < cur => (timer[c] = "none" /\ ~LiveRequest(c))

\* C3 amended: starting a new cycle aborts the previous cycle's in-flight
\* request and sets its cancellation flag; a pending retry timer is not
\* cleared but fires without effect: the previous cycle has no live request,
\* never issues another listing request and never schedules another timer.
C3_Amended ==
    [][\A c \in Cycles :
          (c < cur' \/ cancelled'[c]) =>
              /\ cancelled'[c]
              /\ ~LiveRequest(c)'
              /\ ~(req[c] = "none" /\ req'[c] = "inflight")
              /\ ~(timer[c] = "none" /\ timer'[c] = "pending")]_vars

\* C3 witness: with cycle 3 running, cycle 1 still has its timer pending and
\* cycle 2 its (aborted) request unsettled.
C3_Witness ==
    /\ cur = 3 /\ Active /\ req[3] = "inflight"
    /\ timer[1] = "pending" /\ cancelled[1]
    /\ req[2] = "inflight" /\ aborted[2] /\ cancelled[2]

\* C6: in an uncancelled cycle whose requests all fail, exactly 6 listing
\* requests are issued (1 + 5 retries); after the 6th failure the state is
\* `error` with the last failure's message and nothing further is started.
C6_SixFailuresThenError ==
    Active =>
        /\ nreq <= 6
        /\ nfail = 6 =>
              /\ nreq = 6
              /\ Len(delays) = 5
              /\ Quiescent(cur)
              /\ IsError
              /\ error = lastMsg
        /\ (Quiescent(cur) /\ okItems = << >>) => nfail = 6

\* C6 witness: a cycle that was never cancelled has seen its 6th failure.
C6_Witness == Active /\ nfail = 6 /\ nreq = 6

\* C7: in an uncancelled cycle whose first k requests fail (0 <= k <= 5) and
\* whose request k+1 succeeds, the state is `success` with that response's
\* items, exactly k delays were scheduled, and `error` was never shown.
C7_RetriesThenSuccess ==
    (Active /\ okItems # << >>) =>
        /\ IsSuccess
        /\ items = okItems[1]
        /\ nfail \in 0..5
        /\ nreq = nfail + 1
        /\ Len(delays) = nfail
        /\ ~errSeen
        /\ Quiescent(cur)

\* C7 witness: two failures, then a success with a non-empty page.
C7_Witness ==
    /\ Active /\ okItems = <<(<<2, 1>>)>> /\ items = <<2, 1>>
    /\ nfail = 2 /\ Len(delays) = 2

\* C8: an error is shown only after the retry budget of the current cycle is
\* exhausted, i.e. after 6 requests of that cycle have failed.
C8_ErrorOnlyAfterBudget ==
    /\ error # Null => (nfail = 6 /\ nreq = 6)
    /\ errSeen => error # Null

\* C8 witness: an error is on show.
C8_Witness == mounted /\ IsError

\* C9: a request that ends because its cycle's controller was aborted (the
\* AbortError, or a settlement racing with the abort) never schedules a retry
\* and never moves the state to `error`.
C9_AbortIsNotFailure ==
    [][\A c \in Cycles :
          (aborted[c] /\ req[c] = "inflight" /\ req'[c] = "none") =>
              /\ timer' = timer
              /\ delays' = delays
              /\ error' = error
              /\ loading' = loading]_vars

\* C9 witness: an aborted request has rejected while the next cycle is loading.
C9_Witness ==
    \E c \in Cycles : c < cur /\ dropped[c] = "abort" /\ Active /\ loading

\* the delays of one cycle, as the claim lists them
C10_Expected == <<1000, 2000, 4000, 8000, 8000>>

\* C10: the delay after the failure of attempt n is min(1000 * 2^n, 8000):
\* 1 s, 2 s, 4 s, 8 s, 8 s in that order, never above 8 s, never decreasing.
C10_BackoffDelays ==
    /\ Len(delays) <= 5
    /\ \A i \in 1..Len(delays) :
          /\ delays[i] = C10_Expected[i]
          /\ delays[i] <= 8000
          /\ i > 1 => delays[i - 1] <= delays[i]

\* C10 witness: all five delays of a cycle have been scheduled.
C10_Witness == Len(delays) = 5 /\ delays[5] = 8000

(***************************************************************************)
(* Claims about the upload pipeline (checked under SpecUpload).            *)
(***************************************************************************)
\* every request has responded and every deletion it started has run
NoUploadInProgress ==
    \A r \in Uploads : upc[r] \in {"new", "done"} /\ ~unlinking[r]

\* the storage names the records of the Metadata Store refer to
RecordNames == {records[i].filename : i \in 1..Len(records)}

\* C2: whenever no upload request is in progress, a byte stream exists under
\* a storage name if and only if a record with that storage name exists.
C2_UploadAtomicity == NoUploadInProgress => storage = RecordNames

\* C4: when the record creation fails after the bytes were written, the
\* handler deletes the byte stream under the allocated name (the deletion is
\* started, and the bytes are gone once it has run), creates no record, and
\* the caller gets a 500.
C4_PersistFailureCleansUp ==
    \A r \in Uploads :
        upath[r] = "persist" =>
            /\ ustatus[r] = 500
            /\ uname[r] \notin RecordNames
            /\ \A i \in 1..Len(records) : records[i].by # r
            /\ unlinking[r] \/ uname[r] \notin storage

\* C4 witness: a request whose image.create failed has responded 500 and its
\* deletion has run, next to a request that succeeded.
C4_Witness ==
    \E r, q \in Uploads :
        /\ upath[r] = "persist" /\ ustatus[r] = 500
        /\ ~unlinking[r] /\ uname[r] \notin storage
        /\ upath[q] = "ok" /\ uname[q] \in storage

\* C5: when the stored bytes cannot be decoded or have no valid dimensions,
\* the byte stream no longer exists in storage once the 400 has been sent.
C5_DeletedBeforeResponse ==
    \A r \in Uploads :
        (upath[r] \in {"undecodable", "nodims"} /\ ustatus[r] = 400) =>
            uname[r] \notin storage

\* ---------------------------------------------------------------------
\* Claims C11..C20
\* ---------------------------------------------------------------------

\* the request r was received and carried a file under the field `image`
SentFile(r) == upc[r] # "new" /\ usent[r].field = "image"

\* the request r created no record
NoRecordBy(r) == \A i \in 1..Len(records) : records[i].by # r

\* the request r wrote nothing to storage and never entered the handler body
NeverStored(r) == upc[r] = "done" /\ uname[r] = 0 /\ ~unlinking[r]

\* C11: an upload whose declared mime type is neither image/jpeg nor
\* image/png is rejected before storage is attempted: no bytes were written
\* for it and no record was created by it.
C11_DisallowedTypeLeavesNothing ==
    \A r \in Uploads :
        (SentFile(r) /\ usent[r].mime \notin {"image/jpeg", "image/png"})
            => NeverStored(r) /\ NoRecordBy(r)

\* a PDF was rejected while another upload's bytes and record exist
C11_Witness ==
    \E r \in Uploads :
        /\ upc[r] = "done"
        /\ usent[r].mime = "application/pdf"
        /\ storage # {}
        /\ Len(records) > 0

\* the statuses of C12 other than the one of a disallowed mime type
C12_OtherStatuses ==
    \A r \in Uploads :
        upc[r] = "done" =>
            /\ usent[r].field = "none" => ustatus[r] = 400
            /\ upath[r] \in {"undecodable", "nodims"} => ustatus[r] = 400
            /\ upath[r] = "large" => ustatus[r] = 413
            /\ upath[r] = "persist" => ustatus[r] = 500

\* C12: missing file, disallowed mime type and undecodable image answer
\* 400, an oversized file answers 413, a metadata persistence failure
\* answers 500; no client-input error is answered with 500.
C12_StatusMapping ==
    /\ C12_OtherStatuses
    /\ \A r \in Uploads :
        (SentFile(r) /\ usent[r].mime \notin {"image/jpeg", "image/png"})
            => ustatus[r] = 400
    /\ \A r \in Uploads :
        (upc[r] = "done" /\ upath[r] \in {"nofile", "type", "large"})
            => ustatus[r] # 500

\* the request r carried a file larger than the ceiling
Oversized(r) == SentFile(r) /\ usent[r].size > 10485760

\* C13 as stated: every upload whose size exceeds the ceiling fails with
\* 413 and the route handler never runs for it, so there is no identity
\* resolution and no record creation.
C13_Original ==
    \A r \in Uploads :
        Oversized(r) => ustatus[r] = 413 /\ NeverStored(r) /\ NoRecordBy(r)

\* C13 amended: for every upload whose size exceeds the ceiling the route
\* handler never runs and no record is created; the status is 413 when the
\* declared mime type is allowed (the type filter answers first otherwise).
C13_Amended ==
    \A r \in Uploads :
        Oversized(r) =>
            /\ NeverStored(r)
            /\ NoRecordBy(r)
            /\ usent[r].mime \in {"image/jpeg", "image/png"}
                   => ustatus[r] = 413

\* an oversized JPEG was answered 413 while another upload was stored
C13_Witness ==
    \E r \in Uploads :
        /\ Oversized(r)
        /\ usent[r].mime = "image/jpeg"
        /\ ustatus[r] = 413
        /\ storage # {}

\* C20: a request that carries no file is answered 400 by the first check
\* of the handler: storage and the record set are unchanged, and neither
\* the identity upsert nor the record creation is started.
C20_NoFileTouchesNothing ==
    [][\A r \in Uploads :
        (upc[r] = "new" /\ upc'[r] # "new" /\ usent'[r].field = "none")
            => /\ ustatus'[r] = 400
               /\ upc'[r] = "done"
               /\ ~unlinking'[r]
               /\ storage' = storage
               /\ content' = content
               /\ records' = records]_vars

\* a request without a file was answered 400 while bytes and a record of
\* another upload exist
C20_Witness ==
    \E r \in Uploads :
        /\ upc[r] = "done"
        /\ usent[r].field = "none"
        /\ ustatus[r] = 400
        /\ storage # {}
        /\ Len(records) > 0

\* the number of records the request r created
RecordsBy(r) == Cardinality({i \in 1..Len(records) : records[i].by = r})

\* the number of items of a listing that the request r created
ItemsBy(page, r) == Cardinality({i \in 1..Len(page) : page[i].by = r})

\* C14: a request that answered 201 created exactly one record, carrying
\* the width and height its stored bytes decode to; a request that answered
\* a failure status (or has not answered) created none; the number of
\* records is the number of 201 responses, and a listing of the records
\* with limit 100 and offset 0 has exactly one item per 201 response.
C14_OneRecordPer201 ==
    /\ \A r \in Uploads :
        RecordsBy(r) = IF ustatus[r] = 201 THEN 1 ELSE 0
    /\ \A i \in 1..Len(records) :
        /\ records[i].filename = uname[records[i].by]
        /\ records[i].width = content[records[i].filename].width
        /\ records[i].height = content[records[i].filename].height
    /\ Len(records) = Cardinality({r \in Uploads : ustatus[r] = 201})
    /\ \A p \in Orderings(records) :
        \A r \in Uploads :
            ItemsBy(FindMany(records, p, 100, 0), r)
                = IF ustatus[r] = 201 THEN 1 ELSE 0

\* an 800x600 upload answered 201 and another upload answered a failure
C14_Witness ==
    \E r, q \in Uploads :
        /\ ustatus[r] = 201
        /\ \E i \in 1..Len(records) :
            /\ records[i].by = r
            /\ records[i].width = 800
            /\ records[i].height = 600
        /\ ustatus[q] \in {400, 413, 500}

\* C15: bytes are never deleted once a record names them: no step removes
\* from storage a name that a record refers to, also when two uploads were
\* given the same storage name.
C15_RecordedBytesNeverDeleted ==
    [][\A n \in RecordNames : n \in storage => n \in storage']_vars

\* C16: every record has a positive width and a positive height, and an
\* upload whose stored bytes decode to a non-positive width or height is
\* answered 400 and creates no record.
C16_PositiveDimensions ==
    /\ \A i \in 1..Len(records) :
        records[i].width > 0 /\ records[i].height > 0
    /\ \A r \in Uploads :
        (/\ upc[r] = "done"
         /\ uname[r] \in storage
         /\ content[uname[r]].ok
         /\ \/ content[uname[r]].width <= 0
            \/ content[uname[r]].height <= 0)
            => ustatus[r] = 400

\* the part of C16 about dimensions reported as zero or missing
C16_ZeroRejected ==
    \A i \in 1..Len(records) :
        records[i].width # 0 /\ records[i].height # 0

\* the listing request was answered and no record was created since it
\* arrived
AnsweredOnFixedRecords == lpc = "done" /\ Len(records) = lseen

\* C17 as stated: for a fixed record set, the answer of a listing request
\* has items.length = min(limit, total - offset), with total the number of
\* records.
C17_Original ==
    AnsweredOnFixedRecords =>
        /\ ltotal = Len(records)
        /\ llimit \in 1..100
        /\ loffset >= 0
        /\ Len(litems[1]) = Min(llimit, ltotal - loffset)

\* C17 amended: items.length = max(0, min(limit, total - offset)).
C17_Amended ==
    AnsweredOnFixedRecords =>
        /\ ltotal = Len(records)
        /\ llimit \in 1..100
        /\ loffset >= 0
        /\ Len(litems[1]) = Max(0, Min(llimit, ltotal - loffset))

\* two records, limit 2 and offset 1: one item is returned
C17_Witness ==
    /\ AnsweredOnFixedRecords
    /\ ltotal = 2
    /\ llimit = 2
    /\ loffset = 1
    /\ Len(litems[1]) = 1

\* the effective limit C18 states for a raw parameter
C18_Limit(q) ==
    IF q.kind # "int" THEN 20
    ELSE IF q.val < 1 THEN 1
    ELSE IF q.val > 100 THEN 100
    ELSE q.val

\* the effective offset C18 states for a raw parameter
C18_Offset(q) ==
    IF q.kind # "int" THEN 0
    ELSE IF q.val < 0 THEN 0
    ELSE q.val

\* C18: the effective limit is the requested integer clamped into 1..100,
\* and 20 when the parameter is absent or not a number; the effective offset
\* is max(requested, 0), and 0 when absent or not a number.
C18_Clamping ==
    lpc # "idle" =>
        /\ llimit = C18_Limit(lq.limit)
        /\ loffset = C18_Offset(lq.offset)

\* the part of C18 that leaves out a requested limit of 0
C18_ClampingButZero ==
    (lpc # "idle" /\ lq.limit # IntText(0)) =>
        /\ llimit = C18_Limit(lq.limit)
        /\ loffset = C18_Offset(lq.offset)

\* a listing with limit 1 and offset 0 was answered, at least one upload
\* had answered 201 when it arrived and none has since
FirstPageAfterUpload ==
    /\ AnsweredOnFixedRecords
    /\ llimit = 1
    /\ loffset = 0
    /\ lseen > 0

DeletionStarted(r) == unlinking[r] \/ uname[r] \notin storage

\* C21: on every non-success exit taken after the bytes were written
\* (invalid image, identity resolution failure, record creation failure)
\* the handler starts the deletion of the bytes under the allocated name.
C21_EveryFailureStartsDeletion ==
    \A r \in Uploads :
        (/\ upc[r] = "done"
         /\ upath[r] \in {"undecodable", "nodims", "identity", "persist"})
            => DeletionStarted(r)

\* the exits of C21 other than the identity resolution failure
C21_OtherExits ==
    \A r \in Uploads :
        (/\ upc[r] = "done"
         /\ upath[r] \in {"undecodable", "nodims", "persist"})
            => DeletionStarted(r)

\* the fetch cycles started so far
Started == 1..cur

\* the cycle c is the current one and its cancellation flag is not set
Current(c) == c = cur /\ ~cancelled[c]

\* the cycle c has a request in flight or a retry timer pending
Busy(c) == req[c] = "inflight" \/ timer[c] = "pending"

\* C22: whenever the current, uncancelled cycle has a request in flight or
\* a retry timer pending, loading is true and error is null.
C22_LoadingWhileBusy ==
    \A c \in Started : (Current(c) /\ Busy(c)) => (loading /\ error = Null)

\* the second cycle, whose predecessor was never cancelled late, waits for
\* its second retry and the state is still `loading`
C22_Witness ==
    /\ cur = 2
    /\ Current(2)
    /\ timer[2] = "pending"
    /\ nfail = 2
    /\ dropped[1] = "none"
    /\ loading

\* in this step an ok response arrives for the current, uncancelled cycle
Accepted ==
    \E c \in Started :
        /\ Current(c)
        /\ req[c] = "inflight"
        /\ req'[c] = "none"
        /\ nfail' = nfail

\* C23: the rendered items change only when an ok response arrives for the
\* cycle that is current and uncancelled, and they then become exactly the
\* items of that response; every other step leaves them as they are.
C23_ItemsOfOneResponse ==
    [][IF Accepted THEN items' = okItems'[1] ELSE items' = items]_vars

\* the second cycle rendered the single item of its response
C23_Witness ==
    /\ cur = 2
    /\ okItems # << >>
    /\ Len(okItems[1]) = 1
    /\ items = okItems[1]
    /\ dropped[1] = "none"

\* in this step the cycle c issues a listing request: it starts, or its
\* retry timer fires and load goes on to fetch
Issues(c) ==
    \/ cur' = c /\ cur # c
    \/ timer[c] = "pending" /\ timer'[c] = "none" /\ req'[c] = "inflight"

\* in this step the cycle c schedules a retry timer
Schedules(c) ==
    /\ c = cur
    /\ Len(delays') = Len(delays) + 1

\* C25, over states: no cycle has a request in flight and a timer pending
\* at once, and at most one started cycle is uncancelled.
C25_State ==
    /\ \A c \in Cycles : ~(req[c] = "inflight" /\ timer[c] = "pending")
    /\ Cardinality({c \in Started : ~cancelled[c]}) <= 1

\* C25: within a cycle at most one request is in flight and at most one
\* timer is pending, never both: a request is issued only when the cycle has
\* no request in flight and leaves no timer pending, a timer is scheduled
\* only when the cycle has no timer pending and no request left in flight;
\* across cycles at most one started cycle is uncancelled.
C25_OneRequestOneTimer ==
    [][/\ C25_State'
       /\ \A c \in Cycles :
           /\ Issues(c) => (req[c] = "none" /\ timer'[c] = "none")
           /\ Schedules(c) => (timer[c] = "none" /\ req'[c] = "none")]_vars

\* the third cycle is the only uncancelled one and waits for a retry, while
\* a request of the first cycle has still not settled
C25_Witness ==
    /\ cur = 3
    /\ ~cancelled[3]
    /\ timer[3] = "pending"
    /\ req[1] = "inflight"

\* C24: if every request eventually completes and every timer eventually
\* fires, a cycle that is current and uncancelled is eventually cancelled
\* or leaves `loading` with no request and no timer left (it has ended in
\* `success` or in `error`).
C24_EveryCycleEnds ==
    \A c \in Cycles :
        Current(c) ~>
            (cancelled[c] \/ (~Busy(c) /\ (IsSuccess \/ IsError)))

\* the second cycle ended in `success` after three failed attempts
C24_Witness ==
    /\ cur = 2
    /\ Current(2)
    /\ ~Busy(2)
    /\ nfail = 3
    /\ IsSuccess

\* C26 as stated: in every listing response offset + items.length <= total,
\* also when a record is created between the two store reads.
C26_Original ==
    lpc = "done" => loffset + Len(litems[1]) <= ltotal

\* C26 amended: in every listing response total lies between the number of
\* records when the request arrived and the number of records now, and the
\* page has at most max(0, n - offset) items, n being the number of records
\* now; offset + items.length <= total holds when no record was created
\* since the request arrived and offset <= total.
C26_Amended ==
    lpc = "done" =>
        /\ lseen <= ltotal
        /\ ltotal <= Len(records)
        /\ Len(litems[1]) <= Max(0, Len(records) - loffset)
        /\ (Len(records) = lseen /\ loffset <= ltotal)
               => loffset + Len(litems[1]) <= ltotal

\* the count was read before a record was created and the page after it:
\* the response has more items than its total
C26_Witness ==
    /\ lpc = "done"
    /\ loffset = 0
    /\ ltotal = lseen
    /\ Len(litems[1]) = ltotal + 1

\* in this step the upload of the handleFiles call k completes successfully
Succeeds(k) == sel[k] = "inflight" /\ sel'[k] = "ok"

\* the number of uploads the component completed successfully
Successes == Cardinality({k \in Selections : sel[k] = "ok"})

\* C27: a successfully completed upload increments the refresh key by one
\* and no other step of the client changes it, so the key counts the
\* successes; a fetch cycle starts only on mount or after the key changed,
\* and starting it cancels and aborts the cycle that was current and issues
\* the request of the new one; a failed or refused upload starts none.
C27_SuccessRefreshesGallery ==
    [][/\ refreshKey' =
            IF \E k \in Selections : Succeeds(k)
            THEN refreshKey + 1 ELSE refreshKey
       /\ refreshKey' = Successes'
       /\ cur' <= refreshKey' + 1
       /\ cur' # cur =>
            /\ cur' = cur + 1
            /\ cur = 0 \/ depKey # refreshKey
            /\ depKey' = refreshKey
            /\ cur > 0 => (cancelled'[cur] /\ aborted'[cur])
            /\ ~cancelled'[cur']
            /\ req'[cur'] = "inflight"]_vars

\* after one failed and one successful upload the Gallery runs its second
\* cycle and the first is cancelled
C27_Witness ==
    /\ \E k, j \in Selections : sel[k] = "ok" /\ sel[j] = "failed"
    /\ refreshKey = 1
    /\ cur = 2
    /\ cancelled[1]
    /\ ~cancelled[2]

\* C28: the upload component never holds a non-null error and a non-null
\* result at the same time.
C28_ErrorExcludesResult == ~(uaError # Null /\ uaResult # NoResult)

\* C29: loading is true whenever an upload request the component started
\* is still in flight.
C29_LoadingWhileInFlight ==
    (\E k \in Selections : sel[k] = "inflight") => uaLoading

====
